---- MODULE Spec2Model ----
(***************************************************************************)
(* File discovery and ranking: pkg/stanza/fileconsumer/matcher.            *)
(*                                                                         *)
(* New(Criteria) validates a configuration and compiles it into a Matcher; *)
(* Matcher.MatchFiles scans the filesystem through the Finder, optionally  *)
(* ranks the files through the Ranking Filter and truncates to topN.       *)
(*                                                                         *)
(* The packages internal/finder and internal/filter are not part of the    *)
(* sources at hand; their operators below follow the written description   *)
(* of the Pattern Validator, the File Finder, the Key Extractor, the Typed *)
(* Comparators and the Ranking Filter.                                     *)
(***************************************************************************)
EXTENDS Integers, Sequences, FiniteSets, TLC

(***************************************************************************)
(* Bounds of the model.                                                    *)
(***************************************************************************)
\* the most files a filesystem snapshot holds
MaxFiles == 3
\* the longest sort_by list of a Criteria
MaxSortBy == 2
\* the largest top_n of a Criteria (the smallest is -1)
MaxTopN == 3

(***************************************************************************)
(* Program constants (matcher.go, lines 15-23).                            *)
(***************************************************************************)
sortTypeNumeric == "numeric"
sortTypeTimestamp == "timestamp"
sortTypeAlphabetical == "alphabetical"
defaultOrderingCriteriaTopN == 1

(***************************************************************************)
(* Go error values.  nil, a leaf made by fmt.Errorf without %w, a wrapper  *)
(* made by fmt.Errorf with %w, and the joinError made by errors.Join.      *)
(* A message is a sequence of strings: the format and its arguments.       *)
(***************************************************************************)
NilErr == [kind |-> "nil", msg |-> <<>>, errs |-> <<>>]

Errorf(msg) == [kind |-> "leaf", msg |-> msg, errs |-> <<>>]

ErrorfW(msg, inner) == [kind |-> "wrap", msg |-> msg, errs |-> <<inner>>]

\* errors.Join: nil arguments are discarded; nil when none is left; otherwise
\* one joinError holding the remaining errors in argument order.
Join(a, b) ==
    LET kept == SelectSeq(<<a, b>>, LAMBDA e : e # NilErr)
    IN  IF Len(kept) = 0 THEN NilErr
        ELSE [kind |-> "join", msg |-> <<>>, errs |-> kept]

\* errors.Is: the error itself, or any error it wraps or joins, is target.
RECURSIVE ErrIs(_, _)
ErrIs(e, target) ==
    \/ e = target
    \/ \E i \in 1..Len(e.errs) : ErrIs(e.errs[i], target)

\* The leaves of an error: every message its Error() string is made of.
RECURSIVE Leaves(_)
Leaves(e) ==
    IF e.kind = "nil" THEN {}
    ELSE IF e.kind = "leaf" THEN {e.msg}
    ELSE UNION {Leaves(e.errs[i]) : i \in 1..Len(e.errs)}

ErrNoFilesMatch == Errorf(<<"no files match the configured criteria">>)

(***************************************************************************)
(* The filesystem and the pattern languages, as tables over a small        *)
(* universe.  A key is the byte sequence of the captured text.             *)
(***************************************************************************)
\* every path that may exist, in the order a directory listing yields them
PathOrder == <<"10.log", "2.log", "c.txt", "x.log">>

Paths == {PathOrder[i] : i \in 1..Len(PathOrder)}

GlobInvalid == "["

GlobAllLogs == "*.log"

GlobAll == "*"

GlobOnes == "1*"

\* doublestar pattern syntax: an unclosed bracket is malformed
GlobValid(p) == p # GlobInvalid

GlobMatch(p, path) ==
    CASE p = GlobAll -> TRUE
      [] p = GlobAllLogs -> path \in {"10.log", "2.log", "x.log"}
      [] p = GlobOnes -> path = "10.log"
      [] OTHER -> FALSE

RegexInvalid == "("

RegexK == "(?P<k>[^.]+)\\.log$"

\* regexp.Compile: an unclosed group does not compile
RegexValid(r) == r # RegexInvalid

\* regexp.FindStringSubmatch of RegexK: the capture of group k as bytes, or
\* <<>> for no match.
Capture(r, path) ==
    IF r # RegexK THEN <<>>
    ELSE CASE path = "10.log" -> <<49, 48>>
           [] path = "2.log" -> <<50>>
           [] path = "x.log" -> <<120>>
           [] OTHER -> <<>>

(***************************************************************************)
(* Criteria, OrderingCriteria and Sort (matcher.go, lines 25-45).          *)
(***************************************************************************)
SortConfig(t, k, asc, layout, loc) ==
    [SortType |-> t, RegexKey |-> k, Ascending |-> asc,
     Layout |-> layout, Location |-> loc]

LayoutMonth == "1"

LocationUnknown == "Nowhere/None"

\* the sort_by entries the model draws from: valid ones of each type, an
\* unrecognised type, and entries whose comparator cannot be built
SortEntries ==
    { SortConfig(sortTypeNumeric, "k", TRUE, "", ""),
      SortConfig(sortTypeAlphabetical, "k", FALSE, "", ""),
      SortConfig(sortTypeTimestamp, "k", TRUE, LayoutMonth, ""),
      SortConfig("size", "k", TRUE, "", ""),
      SortConfig("", "k", TRUE, "", ""),
      SortConfig(sortTypeNumeric, "", TRUE, "", ""),
      SortConfig(sortTypeTimestamp, "k", TRUE, LayoutMonth, LocationUnknown) }

RECURSIVE SeqsUpTo(_, _)
SeqsUpTo(S, n) ==
    IF n = 0 THEN {<<>>}
    ELSE LET shorter == SeqsUpTo(S, n - 1)
         IN  shorter \cup {Append(s, x) : s \in {t \in shorter : Len(t) = n - 1}, x \in S}

Includes == {<<>>, <<GlobAllLogs>>, <<GlobAll>>, <<GlobOnes, GlobAll>>, <<GlobInvalid>>}

Excludes == {<<>>, <<GlobOnes>>, <<GlobInvalid>>}

Regexes == {"", RegexK, RegexInvalid}

TopNs == (-1)..MaxTopN

CriteriaSet ==
    [Include : Includes, Exclude : Excludes,
     OrderingCriteria : [Regex : Regexes, TopN : TopNs,
                         SortBy : SeqsUpTo(SortEntries, MaxSortBy)]]

(***************************************************************************)
(* Pattern Validator: finder.Validate.                                     *)
(***************************************************************************)
\* nil when every glob is well formed, otherwise the error of the first
\* malformed one
Validate(globs) ==
    LET bad == {i \in 1..Len(globs) : ~GlobValid(globs[i])}
    IN  IF bad = {} THEN NilErr
        ELSE LET i == CHOOSE j \in bad : \A k \in bad : j <= k
             IN  ErrorfW(<<"parse glob">>, Errorf(<<"syntax error in pattern", globs[i]>>))

(***************************************************************************)
(* Typed Comparators: filter.SortNumeric, SortAlphabetical, SortTemporal.  *)
(* Each returns a compiled comparator (a filter.Option) or an error.       *)
(***************************************************************************)
NoOption == [kind |-> "", key |-> "", ascending |-> FALSE, layout |-> "", location |-> ""]

Built(opt, err) == [opt |-> opt, err |-> err]

SortNumeric(regexKey, ascending) ==
    IF regexKey = ""
    THEN Built(NoOption, Errorf(<<"regex key must be specified for numeric sort">>))
    ELSE Built([kind |-> "numeric", key |-> regexKey, ascending |-> ascending,
                layout |-> "", location |-> ""], NilErr)

SortAlphabetical(regexKey, ascending) ==
    IF regexKey = ""
    THEN Built(NoOption, Errorf(<<"regex key must be specified for alphabetical sort">>))
    ELSE Built([kind |-> "alphabetical", key |-> regexKey, ascending |-> ascending,
                layout |-> "", location |-> ""], NilErr)

SortTemporal(regexKey, ascending, layout, location) ==
    IF regexKey = ""
    THEN Built(NoOption, Errorf(<<"regex key must be specified for time sort">>))
    ELSE IF layout = ""
    THEN Built(NoOption, Errorf(<<"layout must be specified for time sort">>))
    ELSE IF location = LocationUnknown
    THEN Built(NoOption, ErrorfW(<<"load location", location>>, Errorf(<<"unknown time zone">>)))
    ELSE Built([kind |-> "timestamp", key |-> regexKey, ascending |-> ascending,
                layout |-> layout,
                location |-> IF location = "" THEN "UTC" ELSE location], NilErr)

(***************************************************************************)
(* New (matcher.go, lines 47-116).                                         *)
(***************************************************************************)
\* a *Matcher: the nil pointer, or the fields of the Matcher it points to.
\* regex is <<>> for a nil *regexp.Regexp and <<r>> for the compiled r.
NilMatcher == [nil |-> TRUE]

MatcherOf(include, exclude, regex, topN, filterOpts) ==
    [include |-> include, exclude |-> exclude, regex |-> regex,
     topN |-> topN, filterOpts |-> filterOpts]

Ret(m, err) == [m |-> m, err |-> err]

\* BuildOption with the default case of the switch missing: an unrecognised
\* sort_type falls through to the alphabetical comparator.
BuildOption_DefaultMissing(sc) ==
    LET r == IF sc.SortType = sortTypeNumeric THEN SortNumeric(sc.RegexKey, sc.Ascending)
             ELSE IF sc.SortType = sortTypeTimestamp
             THEN SortTemporal(sc.RegexKey, sc.Ascending, sc.Layout, sc.Location)
             ELSE SortAlphabetical(sc.RegexKey, sc.Ascending)
    IN  IF r.err # NilErr THEN Built(NoOption, ErrorfW(<<"sort">>, r.err)) ELSE r

\* One pass of the loop body of lines 84-107: the comparator of one sort_by
\* entry, or the error New returns for it.
BuildOption(sc) ==
    CASE sc.SortType = sortTypeNumeric ->
           LET r == SortNumeric(sc.RegexKey, sc.Ascending)
           IN  IF r.err # NilErr
               THEN Built(NoOption, ErrorfW(<<"numeric sort">>, r.err)) ELSE r
      [] sc.SortType = sortTypeAlphabetical ->
           LET r == SortAlphabetical(sc.RegexKey, sc.Ascending)
           IN  IF r.err # NilErr
               THEN Built(NoOption, ErrorfW(<<"alphabetical sort">>, r.err)) ELSE r
      [] sc.SortType = sortTypeTimestamp ->
           LET r == SortTemporal(sc.RegexKey, sc.Ascending, sc.Layout, sc.Location)
           IN  IF r.err # NilErr
               THEN Built(NoOption, ErrorfW(<<"timestamp sort">>, r.err)) ELSE r
      [] OTHER -> Built(NoOption, Errorf(<<"'sort_type' must be specified">>))

\* ResolveTopN without the default: top_n = 0 stays 0.
ResolveTopN_NoDefault(topN) == topN

\* The default applied by lines 74-76.
ResolveTopN(topN) == IF topN = 0 THEN defaultOrderingCriteriaTopN ELSE topN

\* NoRanking taken only when the regex is unset too.
NoRanking_RegexUnset(c) ==
    Len(c.OrderingCriteria.SortBy) = 0 /\ c.OrderingCriteria.Regex = ""

\* The early return of lines 59-64: no sort_by, no ranking; regex and top_n
\* of the Criteria are not looked at.
NoRanking(c) == Len(c.OrderingCriteria.SortBy) = 0

\* The check of lines 70-72 left out.
TopNRejected_Missing(c) == FALSE

\* The check of lines 70-72.
TopNRejected(c) == c.OrderingCriteria.TopN < 0

New(c) ==
    LET oc == c.OrderingCriteria
        built == [i \in 1..Len(oc.SortBy) |-> BuildOption(oc.SortBy[i])]
        failed == {i \in 1..Len(oc.SortBy) : built[i].err # NilErr}
    IN  IF Len(c.Include) = 0
        THEN Ret(NilMatcher, Errorf(<<"'include' must be specified">>))
        ELSE IF Validate(c.Include) # NilErr
        THEN Ret(NilMatcher, ErrorfW(<<"include">>, Validate(c.Include)))
        ELSE IF Validate(c.Exclude) # NilErr
        THEN Ret(NilMatcher, ErrorfW(<<"exclude">>, Validate(c.Exclude)))
        ELSE IF NoRanking(c)
        THEN Ret(MatcherOf(c.Include, c.Exclude, <<>>, 0, <<>>), NilErr)
        ELSE IF oc.Regex = ""
        THEN Ret(NilMatcher, Errorf(<<"'regex' must be specified when 'sort_by' is specified">>))
        ELSE IF TopNRejected(c)
        THEN Ret(NilMatcher, Errorf(<<"'top_n' must be a positive integer">>))
        ELSE IF ~RegexValid(oc.Regex)
        THEN Ret(NilMatcher, ErrorfW(<<"compile regex">>, Errorf(<<"error parsing regexp", oc.Regex>>)))
        ELSE IF failed # {}
        THEN Ret(NilMatcher, built[CHOOSE i \in failed : \A j \in failed : i <= j].err)
        ELSE Ret(MatcherOf(c.Include, c.Exclude, <<oc.Regex>>, ResolveTopN(oc.TopN),
                           [i \in 1..Len(oc.SortBy) |-> built[i].opt]), NilErr)

(***************************************************************************)
(* File Finder: finder.FindFiles.  A filesystem snapshot is the set of     *)
(* files that exist and whether a directory is unreadable (an I/O error    *)
(* that every pattern expansion reports while still yielding its matches). *)
(***************************************************************************)
Snapshots == [files : {S \in SUBSET Paths : Cardinality(S) <= MaxFiles}, ioErr : BOOLEAN]

Found(files, err) == [files |-> files, err |-> err]

\* the expansion of one glob: the existing files it matches, in listing order
Glob(p, snap) ==
    SelectSeq(PathOrder, LAMBDA path : path \in snap.files /\ GlobMatch(p, path))

Excluded(exclude, path) == \E i \in 1..Len(exclude) : GlobMatch(exclude[i], path)

RECURSIVE AppendNew(_, _, _)
\* appends to all every match that is not excluded and not yet in all
AppendNew(all, matches, exclude) ==
    IF matches = <<>> THEN all
    ELSE LET match == Head(matches)
             dup == \E i \in 1..Len(all) : all[i] = match
         IN  AppendNew(IF Excluded(exclude, match) \/ dup THEN all ELSE Append(all, match),
                       Tail(matches), exclude)

RECURSIVE FindFrom(_, _, _, _)
FindFrom(acc, include, exclude, snap) ==
    IF include = <<>> THEN acc
    ELSE LET p == Head(include)
             err == IF snap.ioErr
                    THEN ErrorfW(<<"find files with pattern", p>>, Errorf(<<"permission denied">>))
                    ELSE NilErr
         IN  FindFrom(Found(AppendNew(acc.files, Glob(p, snap), exclude), Join(acc.err, err)),
                      Tail(include), exclude, snap)

FindFiles(include, exclude, snap) == FindFrom(Found(<<>>, NilErr), include, exclude, snap)

(***************************************************************************)
(* Key Extractor and comparators at ranking time.                          *)
(***************************************************************************)
IsDigits(key) == key # <<>> /\ \A i \in 1..Len(key) : key[i] \in 48..57

RECURSIVE Decimal(_)
Decimal(key) ==
    IF key = <<>> THEN 0 ELSE 10 * Decimal(SubSeq(key, 1, Len(key) - 1)) + (key[Len(key)] - 48)

\* whether the key parses under the comparator: a decimal number, any text,
\* or (layout "1") a month number
Parses(opt, key) ==
    CASE opt.kind = "numeric" -> IsDigits(key)
      [] opt.kind = "timestamp" -> IsDigits(key) /\ Len(key) <= 2 /\ Decimal(key) \in 1..12
      [] OTHER -> TRUE

RECURSIVE LexCompare(_, _)
\* byte-wise lexical comparison: -1, 0 or 1
LexCompare(a, b) ==
    IF a = <<>> /\ b = <<>> THEN 0
    ELSE IF a = <<>> THEN -1
    ELSE IF b = <<>> THEN 1
    ELSE IF Head(a) < Head(b) THEN -1
    ELSE IF Head(a) > Head(b) THEN 1
    ELSE LexCompare(Tail(a), Tail(b))

Sign(n) == IF n < 0 THEN -1 ELSE IF n > 0 THEN 1 ELSE 0

\* one comparator on two keys, honouring its direction; a key that does not
\* parse is a missing key and decides nothing
Compare(opt, a, b) ==
    LET raw == IF ~Parses(opt, a) \/ ~Parses(opt, b) THEN 0
               ELSE IF opt.kind = "alphabetical" THEN LexCompare(a, b)
               ELSE Sign(Decimal(a) - Decimal(b))
    IN  IF opt.ascending THEN raw ELSE 0 - raw

RECURSIVE CompareChain(_, _, _)
\* the composite key: the first comparator that tells the keys apart decides
CompareChain(opts, a, b) ==
    IF opts = <<>> THEN 0
    ELSE LET c == Compare(Head(opts), a, b)
         IN  IF c # 0 THEN c ELSE CompareChain(Tail(opts), a, b)

(***************************************************************************)
(* Ranking Filter: filter.Filter.                                          *)
(***************************************************************************)
Ranked(files, err) == [files |-> files, err |-> err]

RECURSIVE Extract(_, _, _, _)
\* keeps the files whose key is extracted and parses under the primary
\* comparator; every other file is dropped and its failure joined
Extract(acc, files, regex, opts) ==
    IF files = <<>> THEN acc
    ELSE LET f == Head(files)
             key == Capture(regex, f)
             next ==
                 IF key = <<>>
                 THEN Ranked(acc.files, Join(acc.err, Errorf(<<"does not match regex", f>>)))
                 ELSE IF ~Parses(opts[1], key)
                 THEN Ranked(acc.files, Join(acc.err, Errorf(<<"parse key", opts[1].kind, f>>)))
                 ELSE Ranked(Append(acc.files, f), acc.err)
         IN  Extract(next, Tail(files), regex, opts)

\* x goes behind every element that does not rank after it: a stable insertion
InsertRanked(sorted, x, regex, opts) ==
    LET after == {i \in 1..Len(sorted) :
                     CompareChain(opts, Capture(regex, x), Capture(regex, sorted[i])) < 0}
        at == IF after = {} THEN Len(sorted) + 1
              ELSE CHOOSE i \in after : \A j \in after : i <= j
    IN  SubSeq(sorted, 1, at - 1) \o <<x>> \o SubSeq(sorted, at, Len(sorted))

RECURSIVE StableSort(_, _, _, _)
StableSort(sorted, files, regex, opts) ==
    IF files = <<>> THEN sorted
    ELSE StableSort(InsertRanked(sorted, Head(files), regex, opts), Tail(files), regex, opts)

Filter(files, regex, opts) ==
    LET kept == Extract(Ranked(<<>>, NilErr), files, regex, opts)
    IN  Ranked(StableSort(<<>>, kept.files, regex, opts), kept.err)

(***************************************************************************)
(* Matcher.MatchFiles (matcher.go, lines 126-150).                         *)
(***************************************************************************)
\* what one call returned (files, err) and what it saw on the way: the
\* snapshot, the Finder's return, and the Ranking Filter's return when it ran
Call(snap, found, filterRan, ranked, files, err) ==
    [done |-> TRUE, snap |-> snap, found |-> found, filterRan |-> filterRan,
     ranked |-> ranked, files |-> files, err |-> err]

NotRanked == Ranked(<<>>, NilErr)

\* Truncate one entry too far: result[:m.topN+1].
Truncate_OneMore(result, topN) == SubSeq(result, 1, topN + 1)

\* result[:m.topN]
Truncate(result, topN) == SubSeq(result, 1, topN)

\* errs after lines 128-132
ScanErrs(found) == Join(NilErr, found.err)

\* ReturnNoFiles replacing the scan errors by the "no files match" error.
ReturnNoFiles_Replaces(snap, found) ==
    Call(snap, found, FALSE, NotRanked, found.files, ErrNoFilesMatch)

\* the return of lines 133-135
ReturnNoFiles(snap, found) ==
    Call(snap, found, FALSE, NotRanked, found.files, Join(ErrNoFilesMatch, ScanErrs(found)))

\* ReturnUnranked dropping the scan errors: return files, nil.
ReturnUnranked_NoErr(snap, found) ==
    Call(snap, found, FALSE, NotRanked, found.files, NilErr)

\* the return of lines 136-138
ReturnUnranked(snap, found) ==
    Call(snap, found, FALSE, NotRanked, found.files, ScanErrs(found))

\* ReturnRanked returning the Filter's error in place of the joined one.
ReturnRanked_FilterErrOnly(m, snap, found) ==
    LET r == Filter(found.files, m.regex[1], m.filterOpts)
    IN  IF Len(r.files) <= m.topN THEN Call(snap, found, TRUE, r, r.files, r.err)
        ELSE Call(snap, found, TRUE, r, SubSeq(r.files, 1, m.topN), r.err)

\* ReturnRanked that reports an empty ranking like an empty scan.
ReturnRanked_NoMatchOnEmpty(m, snap, found) ==
    LET r == Filter(found.files, m.regex[1], m.filterOpts)
        errs == Join(r.err, ScanErrs(found))
    IN  IF Len(r.files) = 0
        THEN Call(snap, found, TRUE, r, r.files, Join(ErrNoFilesMatch, errs))
        ELSE IF Len(r.files) <= m.topN THEN Call(snap, found, TRUE, r, r.files, errs)
        ELSE Call(snap, found, TRUE, r, SubSeq(r.files, 1, m.topN), errs)

\* the returns of lines 140-149
ReturnRanked(m, snap, found) ==
    LET r == Filter(found.files, m.regex[1], m.filterOpts)
        errs == Join(r.err, ScanErrs(found))
    IN  IF Len(r.files) = 0 THEN Call(snap, found, TRUE, r, r.files, errs)
        ELSE IF Len(r.files) <= m.topN THEN Call(snap, found, TRUE, r, r.files, errs)
        ELSE Call(snap, found, TRUE, r, Truncate(r.files, m.topN), errs)

MatchFilesOf(m, snap) ==
    LET found == FindFiles(m.include, m.exclude, snap)
    IN  IF Len(found.files) = 0 THEN ReturnNoFiles(snap, found)
        ELSE IF Len(m.filterOpts) = 0 THEN ReturnUnranked(snap, found)
        ELSE ReturnRanked(m, snap, found)

(***************************************************************************)
(* The state machine: one Criteria, New once, then MatchFiles repeatedly,  *)
(* each call by one of the callers that share the Matcher.                 *)
(***************************************************************************)
VARIABLES
    crit,     \* the Criteria handed to New
    pc,       \* "config" before New has run, "built" after
    matcher,  \* the *Matcher New returned
    newErr,   \* the error New returned
    calls     \* per caller, the last MatchFiles call it made

vars == <<crit, pc, matcher, newErr, calls>>

Callers == {"poller", "other"}

NoSnapshot == [files |-> {}, ioErr |-> FALSE]

NoCall ==
    [done |-> FALSE, snap |-> NoSnapshot, found |-> Found(<<>>, NilErr), filterRan |-> FALSE,
     ranked |-> NotRanked, files |-> <<>>, err |-> NilErr]

InitWith(criteria) ==
    /\ crit \in criteria
    /\ pc = "config"
    /\ matcher = NilMatcher
    /\ newErr = NilErr
    /\ calls = [p \in Callers |-> NoCall]

NewStep ==
    /\ pc = "config"
    /\ pc' = "built"
    /\ matcher' = New(crit).m
    /\ newErr' = New(crit).err
    /\ UNCHANGED <<crit, calls>>

\* MatchFiles on a pointer receiver that keeps what it learnt: the number of
\* files it returned becomes the Matcher's topN.
MatchFiles_Remembering(p, snap) ==
    /\ pc = "built"
    /\ matcher # NilMatcher
    /\ calls' = [calls EXCEPT ![p] = MatchFilesOf(matcher, snap)]
    /\ matcher' = [matcher EXCEPT !.topN = Len(MatchFilesOf(matcher, snap).files)]
    /\ UNCHANGED <<crit, pc, newErr>>

\* a call needs a Matcher: New returned one
MatchFiles(p, snap) ==
    /\ pc = "built"
    /\ matcher # NilMatcher
    /\ calls' = [calls EXCEPT ![p] = MatchFilesOf(matcher, snap)]
    /\ UNCHANGED <<crit, pc, matcher, newErr>>

Init == InitWith(CriteriaSet)

Next ==
    \/ NewStep
    \/ \E snap \in Snapshots : MatchFiles("poller", snap)

Spec == Init /\ [][Next]_vars

\* Criteria that build a Matcher, with and without ranking, for the runs in
\* which several callers share it
SharedCriteria ==
    {c \in CriteriaSet :
        /\ c.Include = <<GlobOnes, GlobAll>>
        /\ c.OrderingCriteria.Regex = RegexK
        /\ c.OrderingCriteria.TopN \in {0, MaxTopN - 1}
        /\ Len(c.OrderingCriteria.SortBy) <= 1
        /\ New(c).err = NilErr}

InitShared == InitWith(SharedCriteria)

NextShared ==
    \/ NewStep
    \/ \E p \in Callers, snap \in Snapshots : MatchFiles(p, snap)

SpecShared == InitShared /\ [][NextShared]_vars

(***************************************************************************)
(* Properties.                                                             *)
(***************************************************************************)
Constructed == pc = "built"

SortBy == crit.OrderingCriteria.SortBy

KnownSortTypes == {sortTypeNumeric, sortTypeAlphabetical, sortTypeTimestamp}

DoneCalls == {p \in Callers : calls[p].done}

Min(a, b) == IF a <= b THEN a ELSE b

\* the Criteria at hand with another top_n
WithTopN(n) == [crit EXCEPT !.OrderingCriteria.TopN = n]

\* C1: New fails, with an error and a nil Matcher, whenever include is empty,
\* or sort_by is non-empty and regex is empty, or some sort_by entry has a
\* sort_type other than numeric, alphabetical or timestamp.
C1_InvalidCriteriaRejected ==
    (/\ Constructed
     /\ \/ Len(crit.Include) = 0
        \/ Len(SortBy) > 0 /\ crit.OrderingCriteria.Regex = ""
        \/ \E i \in 1..Len(SortBy) : SortBy[i].SortType \notin KnownSortTypes)
    => newErr # NilErr /\ matcher = NilMatcher

\* C1, the case reached: every earlier check passes, the second sort_by entry
\* has an unrecognised sort_type, and New returned nil with the sort_type error.
C1_Witness ==
    /\ Constructed
    /\ Len(SortBy) = 2
    /\ SortBy[1].SortType \in KnownSortTypes
    /\ SortBy[2].SortType \notin KnownSortTypes
    /\ newErr = Errorf(<<"'sort_type' must be specified">>)
    /\ matcher = NilMatcher

GlobsAccepted ==
    /\ Len(crit.Include) > 0
    /\ Validate(crit.Include) = NilErr
    /\ Validate(crit.Exclude) = NilErr

\* C2 as stated: New fails with an error for every Criteria whose top_n is
\* negative, whatever the other fields are, sort_by empty included.
C2_NegativeTopNRejected ==
    (Constructed /\ crit.OrderingCriteria.TopN < 0) => newErr # NilErr

\* C2 as amended: New fails, with an error and a nil Matcher, for every
\* Criteria whose top_n is negative and whose sort_by is non-empty; with
\* sort_by empty top_n is not examined, and New fails exactly when include is
\* empty or a glob is malformed.
C2_NegativeTopNRejectedWhenSorting ==
    (Constructed /\ crit.OrderingCriteria.TopN < 0) =>
        /\ Len(SortBy) > 0 => (newErr # NilErr /\ matcher = NilMatcher)
        /\ Len(SortBy) = 0 => (newErr = NilErr <=> GlobsAccepted)

\* C2, the case reached: globs, regex and comparators are all acceptable,
\* top_n is -1, and New returned nil with the top_n error.
C2_Witness ==
    /\ Constructed
    /\ crit.OrderingCriteria.TopN = -1
    /\ Len(SortBy) > 0
    /\ New(WithTopN(1)).err = NilErr
    /\ newErr = Errorf(<<"'top_n' must be a positive integer">>)
    /\ matcher = NilMatcher

\* C3: whenever the Finder returns zero files, MatchFiles returns no files and
\* a non-nil error that contains the "no files match" error and the Finder's
\* error, ranking configured or not, and the Ranking Filter is not run.
C3_NoFilesFound ==
    \A p \in DoneCalls :
        Len(calls[p].found.files) = 0 =>
            /\ calls[p].files = <<>>
            /\ calls[p].err # NilErr
            /\ ErrIs(calls[p].err, ErrNoFilesMatch)
            /\ calls[p].found.err # NilErr => ErrIs(calls[p].err, calls[p].found.err)
            /\ Leaves(calls[p].err) = Leaves(ErrNoFilesMatch) \cup Leaves(calls[p].found.err)
            /\ ~calls[p].filterRan

\* C3, the case reached: ranking is configured, the scan failed and found
\* nothing, and the call has returned.
C3_Witness ==
    \E p \in DoneCalls :
        /\ Len(matcher.filterOpts) > 0
        /\ Len(calls[p].found.files) = 0
        /\ calls[p].found.err # NilErr
        /\ calls[p].snap.files # {}

\* C4 as stated: when ranking is configured, the Finder returns at least one file and
\* the Ranking Filter retains none, MatchFiles returns no files and an error
\* that contains the "no files match" error besides the per-file failures.
C4_NoFilesRankedReportsNoMatch ==
    \A p \in DoneCalls :
        (/\ calls[p].filterRan
         /\ Len(calls[p].found.files) >= 1
         /\ Len(calls[p].ranked.files) = 0)
        => /\ calls[p].files = <<>>
           /\ ErrIs(calls[p].err, ErrNoFilesMatch)
           /\ ErrIs(calls[p].err, calls[p].ranked.err)

\* C4 as amended: when ranking is configured, the Finder returns at least one
\* file and the Ranking Filter retains none, MatchFiles returns no files and
\* the Ranking Filter's error (the per-file failures) joined with the Finder's
\* error and nothing else: the "no files match" error is not part of it.
C4_NoFilesRankedReportsFailures ==
    \A p \in DoneCalls :
        (/\ calls[p].filterRan
         /\ Len(calls[p].found.files) >= 1
         /\ Len(calls[p].ranked.files) = 0)
        => /\ calls[p].files = <<>>
           /\ calls[p].err # NilErr
           /\ ErrIs(calls[p].err, calls[p].ranked.err)
           /\ calls[p].found.err # NilErr => ErrIs(calls[p].err, calls[p].found.err)
           /\ Leaves(calls[p].err) =
                  Leaves(calls[p].ranked.err) \cup Leaves(calls[p].found.err)
           /\ ~ErrIs(calls[p].err, ErrNoFilesMatch)

\* C4, the case reached: two files were found, the regex matches neither or
\* its key does not parse, and the call returned nothing.
C4_Witness ==
    \E p \in DoneCalls :
        /\ calls[p].filterRan
        /\ Len(calls[p].found.files) = 2
        /\ Len(calls[p].ranked.files) = 0
        /\ calls[p].files = <<>>

\* C5: when the Ranking Filter ran, MatchFiles returns exactly the first
\* min(topN, |ranked|) entries of its output in ranked order, never more than
\* topN, and the error is the Filter's and the Finder's errors and nothing else.
C5_TopNTruncation ==
    \A p \in DoneCalls :
        calls[p].filterRan =>
            LET ranked == calls[p].ranked.files
                n == Min(matcher.topN, Len(ranked))
            IN  /\ Len(calls[p].files) = n
                /\ \A i \in 1..n : calls[p].files[i] = ranked[i]
                /\ Len(calls[p].files) <= matcher.topN
                /\ Leaves(calls[p].err) =
                       Leaves(calls[p].ranked.err) \cup Leaves(calls[p].found.err)

\* C5, the case reached: the ranked list is longer than topN and was cut.
C5_Witness ==
    \E p \in DoneCalls :
        /\ calls[p].filterRan
        /\ matcher.topN = 2
        /\ Len(calls[p].ranked.files) = 3
        /\ calls[p].files = SubSeq(calls[p].ranked.files, 1, 2)

\* C6: with sort_by non-empty, the Matcher built with top_n = 0 (also the
\* value of an unset top_n) is the one top_n = 1 builds, every call on it
\* returns what the call on that one returns, and that is at most one file.
C6_ZeroTopNIsOne ==
    (Constructed /\ Len(SortBy) > 0 /\ crit.OrderingCriteria.TopN = 0) =>
        /\ matcher = New(WithTopN(1)).m
        /\ newErr = New(WithTopN(1)).err
        /\ \A p \in DoneCalls :
               /\ calls[p].files = MatchFilesOf(New(WithTopN(1)).m, calls[p].snap).files
               /\ calls[p].err = MatchFilesOf(New(WithTopN(1)).m, calls[p].snap).err
               /\ Len(calls[p].files) <= 1

\* C6, the case reached: top_n = 0, two files ranked, one returned.
C6_Witness ==
    /\ Constructed
    /\ crit.OrderingCriteria.TopN = 0
    /\ \E p \in DoneCalls :
           /\ calls[p].filterRan
           /\ Len(calls[p].ranked.files) >= 2
           /\ Len(calls[p].files) = 1

\* C7: with sort_by empty and at least one file found, MatchFiles returns the
\* Finder's output for the Criteria's include and exclude as it is (no
\* truncation, no regex filtering, whatever top_n and regex are) and the
\* Finder's error alone, nil if there was none.
C7_UnrankedVerbatim ==
    \A p \in DoneCalls :
        (Len(SortBy) = 0 /\ Len(calls[p].found.files) >= 1) =>
            /\ calls[p].found = FindFiles(crit.Include, crit.Exclude, calls[p].snap)
            /\ calls[p].files = calls[p].found.files
            /\ ~calls[p].filterRan
            /\ calls[p].found.err = NilErr => calls[p].err = NilErr
            /\ calls[p].found.err # NilErr =>
                   /\ calls[p].err.kind = "join"
                   /\ calls[p].err.errs = <<calls[p].found.err>>

\* C7, the case reached: top_n is 1 and a regex is set, yet three files, one
\* of which the regex does not match, come back with the scan error.
C7_Witness ==
    \E p \in DoneCalls :
        /\ Len(SortBy) = 0
        /\ crit.OrderingCriteria.TopN = 1
        /\ crit.OrderingCriteria.Regex = RegexK
        /\ Len(calls[p].files) = 3
        /\ \E i \in 1..3 : calls[p].files[i] = "c.txt"
        /\ calls[p].err # NilErr

\* C8: on every return path the returned error contains every non-nil error
\* of the Finder and of the Ranking Filter of that call, also when files are
\* returned.
C8_JoinNotReplace ==
    \A p \in DoneCalls :
        /\ calls[p].found.err # NilErr => ErrIs(calls[p].err, calls[p].found.err)
        /\ (calls[p].filterRan /\ calls[p].ranked.err # NilErr)
               => ErrIs(calls[p].err, calls[p].ranked.err)
        /\ Leaves(calls[p].found.err) \cup Leaves(calls[p].ranked.err)
               \subseteq Leaves(calls[p].err)

\* C8, the case reached: both the Finder and the Ranking Filter reported
\* errors and the call still returned a truncated, non-empty result.
C8_Witness ==
    \E p \in DoneCalls :
        /\ calls[p].found.err # NilErr
        /\ calls[p].filterRan
        /\ calls[p].ranked.err # NilErr
        /\ Len(calls[p].files) >= 1
        /\ Len(calls[p].files) < Len(calls[p].ranked.files)

\* C9 as stated: New fails with an error whenever regex is set and sort_by is
\* empty.
C9_RegexWithoutSortByRejected ==
    (Constructed /\ crit.OrderingCriteria.Regex # "" /\ Len(SortBy) = 0) => newErr # NilErr

\* C9 as amended: with regex set and sort_by empty New fails exactly when
\* include is empty or a glob is malformed; otherwise it returns a Matcher
\* without ranking (no regex, no topN, no comparators): the regex is ignored.
\* A Matcher that holds a regex always holds a non-empty comparator chain.
C9_RegexWithoutSortByIgnored ==
    /\ (Constructed /\ crit.OrderingCriteria.Regex # "" /\ Len(SortBy) = 0) =>
           /\ newErr = NilErr <=> GlobsAccepted
           /\ newErr # NilErr => matcher = NilMatcher
           /\ newErr = NilErr =>
                  matcher = MatcherOf(crit.Include, crit.Exclude, <<>>, 0, <<>>)
    /\ (Constructed /\ matcher # NilMatcher) =>
           (matcher.regex = <<>> <=> matcher.filterOpts = <<>>)

\* C9, the case reached: a regex (one that does not even compile) is set,
\* sort_by is empty, and New returned a Matcher.
C9_Witness ==
    /\ Constructed
    /\ crit.OrderingCriteria.Regex = RegexInvalid
    /\ Len(SortBy) = 0
    /\ newErr = NilErr
    /\ matcher # NilMatcher

\* two calls over the same snapshot returned the same files and error, and
\* each is what the configuration fixed by New yields on that snapshot
SameSnapshotSameResult ==
    /\ \A p, q \in DoneCalls :
           calls[p].snap = calls[q].snap =>
               calls[p].files = calls[q].files /\ calls[p].err = calls[q].err
    /\ \A p \in DoneCalls : calls[p] = MatchFilesOf(New(crit).m, calls[p].snap)

\* C10: no MatchFiles call, by whichever caller and in whatever order, changes
\* the Matcher (include, exclude, regex, topN, comparators); each result
\* depends only on the configuration fixed at construction and the snapshot
\* of the call, so calls over the same snapshot return the same result.
C10_NoCrossCallState ==
    /\ [](Constructed => SameSnapshotSameResult)
    /\ [][Constructed => matcher' = matcher /\ crit' = crit]_vars

\* C10, the case reached: both callers have called a ranking Matcher over the
\* same snapshot, scan error included, and both got files.
C10_Witness ==
    /\ DoneCalls = Callers
    /\ Len(matcher.filterOpts) > 0
    /\ \A p \in Callers : calls[p].snap = [files |-> {"10.log", "2.log", "x.log"}, ioErr |-> TRUE]
    /\ \A p \in Callers : Len(calls[p].files) >= 1

====
